---- MODULE Spec2Model ----
(***************************************************************************)
(* Model of update/menu.go: the interactive selection menu of fluxctl.     *)
(* NewMenu builds the rows from a Result map, Run loops over key events    *)
(* decoded by getChar and dispatches them to toggleCursor, cursorDown and  *)
(* cursorUp, each of which repaints through Render.                        *)
(***************************************************************************)
EXTENDS Integers, Sequences, FiniteSets, TLC

VARIABLES
    results,        \* Menu.results: resource id -> outcome (the input map)
    verbosity,      \* the verbosity NewMenu was called with
    loopVarShared,  \* whether the build gives `upd` of the range loop one address
    items,          \* Menu.items
    cursor,         \* Menu.cursor
    selectable,     \* Menu.selectable
    lines,          \* ClearableWriter.lines
    lastClear,      \* argument of the last clearLines sequence written
    painted,        \* the rows of the last Render: cursor marker and checkbox
    cursorVis,      \* the last cursor-visibility sequence written to stdout
    pc,             \* position of Run
    ascii,          \* getChar's results as last returned
    keyCode,
    err,
    selected,       \* Run's results
    aborted,
    ttyOpen,        \* the /dev/tty handle of the last getChar is still open
    ttyRaw,         \* the terminal device is in raw mode
    bytes,          \* getChar's buffer: the bytes of the read it has returned from
    ioErrors,       \* the device operations that failed in that call of getChar
    hist            \* the last two menu operations called outside of Run, each
                    \* with the cursor and the rows it was called on

vars == <<results, verbosity, loopVarShared, items, cursor, selectable, lines,
          lastClear, painted, cursorVis, pc, ascii, keyCode, err, selected,
          aborted, ttyOpen, ttyRaw, bytes, ioErrors, hist>>

-----------------------------------------------------------------------------
(* Bounds of the input space *)

\* the most rows (error rows and updates together) an input map holds
MaxRows == 3

IDs == {"a", "b"}

Statuses == {"ignored", "skipped", "success"}

\* no error, an error of one line, an error of two lines
Errors == {"", "e", "e\ne"}

Verbosities == 0..2

(* The bytes a read of /dev/tty delivers alone: ctrl-C, CR, ESC, space,    *)
(* '&' (38) and '(' (40).                                                  *)
Bytes == {3, 13, 27, 32, 38, 40}

(* The reads: nothing, one byte, two bytes, ESC [ and a third byte, and    *)
(* three bytes that do not begin with ESC [.                               *)
Reads ==
    {<<>>} \cup {<<b>> : b \in Bytes} \cup {<<27, 91>>}
    \cup {<<27, 91, c>> : c \in {65, 66, 67, 68, 32}}
    \cup {<<32, 91, 65>>, <<27, 65, 66>>}

-----------------------------------------------------------------------------
(* Data *)

\* a nil *ContainerUpdate
Nil == [res |-> "nil", k |-> 0]

\* the k-th ContainerUpdate of the outcome of resource id
ContainerUpdate(id, k) == [res |-> id, k |-> k]

\* the outcomes of resource id
ControllerResults(id) ==
    { [Status |-> s, Error |-> e,
       PerContainer |-> [k \in 1..n |-> ContainerUpdate(id, k)]] :
         s \in Statuses, e \in Errors, n \in 0..MaxRows }

\* the rows an outcome holds: its error, if any, and its updates
rowsOf(result) == (IF result.Error # "" THEN 1 ELSE 0) + Len(result.PerContainer)

RECURSIVE sumRows(_, _)
sumRows(r, D) ==
    IF D = {} THEN 0
    ELSE LET id == CHOOSE x \in D : TRUE
         IN  rowsOf(r[id]) + sumRows(r, D \ {id})

\* the Result maps: every key maps to an outcome holding its own updates
Results ==
    UNION { { r \in [D -> UNION {ControllerResults(id) : id \in D}] :
                /\ \A id \in D : r[id] \in ControllerResults(id)
                /\ sumRows(r, D) <= MaxRows } : D \in SUBSET IDs }

MenuItem(id, status, error, update) ==
    [id |-> id, status |-> status, error |-> error, update |-> update,
     selected |-> FALSE]

\* MenuItem.selectable
isSelectable(i) == i.update # Nil

-----------------------------------------------------------------------------
(* Construction *)

\* lexicographic rank of an identifier
Rank(id) == CASE id = "a" -> 1 [] id = "b" -> 2

RECURSIVE SortIDs(_)
SortIDs(D) ==
    IF D = {} THEN <<>>
    ELSE LET least == CHOOSE x \in D : \A y \in D : Rank(x) <= Rank(y)
         IN  <<least>> \o SortIDs(D \ {least})

\* Result.ServiceIDs: the keys of the map in lexicographic order
ServiceIDs(r) == SortIDs(DOMAIN r)

\* AddItem counting every row, selectable or not
AddItem_countsAll(m, mi) ==
    [items |-> Append(m.items, mi), selectable |-> m.selectable + 1]

\* Menu.AddItem on the pair (items, selectable)
AddItem(m, mi) ==
    [items |-> Append(m.items, mi),
     selectable |-> IF isSelectable(mi) THEN m.selectable + 1 ELSE m.selectable]

\* skipResult with the threshold of the ignored outcomes off by one
skipResult_offByOne(status, v) ==
    CASE status = "ignored" -> v < 1
      [] status = "skipped" -> v < 1
      [] OTHER -> FALSE

\* the switch of fromResults: TRUE when the outcome is passed over (continue)
skipResult(status, v) ==
    CASE status = "ignored" -> v < 2
      [] status = "skipped" -> v < 1
      [] OTHER -> FALSE

\* what the row made in iteration k points to once the loop has ended:
\* &upd is one variable for the whole loop, or one per iteration
updPointee(perContainer, k, shared) ==
    IF shared THEN perContainer[Len(perContainer)] ELSE perContainer[k]

RECURSIVE addUpdates(_, _, _, _, _)
addUpdates(m, id, result, k, shared) ==
    IF k > Len(result.PerContainer) THEN m
    ELSE addUpdates(
           AddItem(m, MenuItem(id, result.Status, "",
                               updPointee(result.PerContainer, k, shared))),
           id, result, k + 1, shared)

\* the body of the loop of fromResults for one resource
addResult(m, id, result, v, shared) ==
    IF skipResult(result.Status, v) THEN m
    ELSE LET m1 == IF result.Error # ""
                   THEN AddItem(m, MenuItem(id, result.Status, result.Error, Nil))
                   ELSE m
         IN  addUpdates(m1, id, result, 1, shared)

RECURSIVE fromResultsFrom(_, _, _, _, _, _)
fromResultsFrom(m, ids, n, r, v, shared) ==
    IF n > Len(ids) THEN m
    ELSE fromResultsFrom(addResult(m, ids[n], r[ids[n]], v, shared),
                         ids, n + 1, r, v, shared)

\* Menu.fromResults on an empty menu
fromResults(r, v, shared) ==
    fromResultsFrom([items |-> <<>>, selectable |-> 0], ServiceIDs(r), 1, r, v, shared)

-----------------------------------------------------------------------------
(* Rendering *)

\* MenuItem.checkbox
checkbox(i) ==
    IF ~isSelectable(i) THEN " "
    ELSE IF i.selected THEN "on" ELSE "off"

\* the running counter i of Render when it reaches row n
renderIndex(its, n) == Cardinality({j \in 1..(n - 1) : isSelectable(its[j])})

\* Menu.renderItem for every row: the marker and the checkbox drawn
renderItems(its, c) ==
    [n \in 1..Len(its) |->
        [curs |-> IF renderIndex(its, n) = c THEN ">" ELSE " ",
         checkbox |-> checkbox(its[n])]]

\* the '\n' bytes ClearableWriter.Write finds in a text
lineBreaks(text) == IF text = "e\ne" THEN 1 ELSE 0

\* MenuItem.updates: the formatted update, or the error
updates(i) == IF i.update # Nil THEN "update" ELSE i.error

RECURSIVE sumBreaks(_, _)
sumBreaks(its, n) ==
    IF n = 0 THEN 0
    ELSE sumBreaks(its, n - 1) + lineBreaks(updates(its[n])) + 1

\* line breaks written through the buffer by one Render: the header line and,
\* for every row, those of its text and the one that ends it
renderLines(its) == 1 + sumBreaks(its, Len(its))

\* Clear leaving the line count as it is
Clear_noReset(l) == [up |-> l, lines |-> l]

\* ClearableWriter.Clear: the cursor is moved up by the count, the count is reset
Clear(l) == [up |-> l, lines |-> 0]

\* Menu.Render: clear, header, rows, hide the cursor
Render(its, c) ==
    /\ lastClear' = Clear(lines).up
    /\ lines' = Clear(lines).lines + renderLines(its)
    /\ painted' = renderItems(its, c)
    /\ cursorVis' = "hide"

-----------------------------------------------------------------------------
(* Initial state: NewMenu has returned, Run has not been called *)

Init ==
    /\ results \in Results
    /\ verbosity \in Verbosities
    /\ loopVarShared \in BOOLEAN
    /\ LET m == fromResults(results, verbosity, loopVarShared)
       IN  /\ items = m.items
           /\ selectable = m.selectable
    /\ cursor = 0
    /\ lines = 0
    /\ lastClear = 0
    /\ painted = <<>>
    /\ cursorVis = "none"
    /\ pc = "start"
    /\ ascii = 0
    /\ keyCode = 0
    /\ err = FALSE
    /\ selected = <<>>
    /\ aborted = FALSE
    /\ ttyOpen = FALSE
    /\ ttyRaw = FALSE
    /\ bytes = <<>>
    /\ ioErrors = {}
    /\ hist = <<>>

-----------------------------------------------------------------------------
(* Input decoder *)

\* decode giving a single byte as key code too
decode_conflated(bs) ==
    IF Len(bs) = 3 /\ bs[1] = 27 /\ bs[2] = 91
    THEN [ascii |-> 0,
          keyCode |-> CASE bs[3] = 65 -> 38
                        [] bs[3] = 66 -> 40
                        [] bs[3] = 67 -> 39
                        [] bs[3] = 68 -> 37
                        [] OTHER -> 0]
    ELSE IF Len(bs) = 1
         THEN [ascii |-> bs[1], keyCode |-> bs[1]]
         ELSE [ascii |-> 0, keyCode |-> 0]

\* the decoding of getChar after a read without error
decode(bs) ==
    IF Len(bs) = 3 /\ bs[1] = 27 /\ bs[2] = 91
    THEN [ascii |-> 0,
          keyCode |-> CASE bs[3] = 65 -> 38
                        [] bs[3] = 66 -> 40
                        [] bs[3] = 67 -> 39
                        [] bs[3] = 68 -> 37
                        [] OTHER -> 0]
    ELSE IF Len(bs) = 1
         THEN [ascii |-> bs[1], keyCode |-> 0]
         ELSE [ascii |-> 0, keyCode |-> 0]

\* Run without the defer: nothing is written on exit
RunExit_noDefer(vis) == vis

\* the deferred fmt.Printf(showCursor) of Run, run when Run returns or panics
RunExit(vis) == "show"

\* a runtime panic unwinds Run: only the deferred call runs
Panic ==
    /\ pc' = "panicked"
    /\ cursorVis' = RunExit(cursorVis)
    /\ UNCHANGED <<results, verbosity, loopVarShared, items, cursor, selectable,
                   lines, lastClear, painted, selected, aborted>>

\* term.Open fails: its error is dropped, t is nil and its first use panics
GetCharOpenFails ==
    /\ pc = "read"
    /\ Panic
    /\ ioErrors' = {"open"}
    /\ UNCHANGED <<ascii, keyCode, err, ttyOpen, ttyRaw, bytes, hist>>

\* t.Read fails: getChar returns the error from inside the if
GetCharReadFails ==
    /\ pc = "read"
    /\ \E raw \in BOOLEAN :
         /\ ttyOpen' = TRUE
         /\ ttyRaw' = raw
         /\ ioErrors' = IF raw THEN {"read"} ELSE {"raw", "read"}
    /\ bytes' = <<>>
    /\ ascii' = 0
    /\ keyCode' = 0
    /\ err' = TRUE
    /\ pc' = "dispatch"
    /\ UNCHANGED <<results, verbosity, loopVarShared, items, cursor, selectable,
                   lines, lastClear, painted, cursorVis, selected, aborted, hist>>

\* t.Read delivers bytes: decode, t.Restore, t.Close; the error of
\* term.RawMode is dropped
GetCharReads ==
    /\ pc = "read"
    /\ \E bs \in Reads :
         /\ bytes' = bs
         /\ ascii' = decode(bs).ascii
         /\ keyCode' = decode(bs).keyCode
    /\ \E raw \in BOOLEAN : ioErrors' = IF raw THEN {} ELSE {"raw"}
    /\ err' = FALSE
    /\ ttyOpen' = FALSE
    /\ ttyRaw' = FALSE
    /\ pc' = "dispatch"
    /\ UNCHANGED <<results, verbosity, loopVarShared, items, cursor, selectable,
                   lines, lastClear, painted, cursorVis, selected, aborted, hist>>

-----------------------------------------------------------------------------
(* Menu operations *)

\* toggleCursor setting the flag instead of flipping it
toggleCursor_sets(its, c) ==
    [its EXCEPT ![c + 1].selected = TRUE]

\* the assignment of toggleCursor: items[cursor] of the raw row sequence
toggleCursor(its, c) ==
    [its EXCEPT ![c + 1].selected = ~its[c + 1].selected]

\* cursorDown without the wrap
cursorDown_noWrap(c, n) == c + 1

\* the assignment of cursorDown
cursorDown(c, n) == (c + 1) % n

\* cursorUp as (cursor - 1) % selectable with Go's truncated remainder
cursorUp_truncated(c, n) == IF c - 1 < 0 THEN c - 1 ELSE (c - 1) % n

\* the assignment of cursorUp
cursorUp(c, n) == (c + n - 1) % n

\* the condition without the test of the error
abortKey_noErr(a, e) == a = 3 \/ a = 27

\* the condition of the first if of the loop of Run
abortKey(a, e) == (a = 3 \/ a = 27) \/ e

\* the loop of the Enter branch: *item.update of every selected row
selectedUpdates(its) ==
    LET sel == SelectSeq(its, LAMBDA i : i.selected)
    IN  [n \in 1..Len(sel) |-> sel[n].update]

-----------------------------------------------------------------------------
(* Run *)

\* the loop of Run goes on from a returned getChar: its buffer and the
\* outcomes of its device operations are gone
GetCharDone ==
    /\ bytes' = <<>>
    /\ ioErrors' = {}

\* Run is called: the defer is registered and the menu is painted
RunStart ==
    /\ pc = "start"
    /\ Render(items, cursor)
    /\ pc' = "read"
    /\ UNCHANGED <<results, verbosity, loopVarShared, items, cursor, selectable,
                   ascii, keyCode, err, selected, aborted, ttyOpen, ttyRaw,
                   bytes, ioErrors, hist>>

\* Escape, interrupt or a read error
RunAbort ==
    /\ pc = "dispatch"
    /\ abortKey(ascii, err)
    /\ lines' = lines + 1
    /\ aborted' = TRUE
    /\ pc' = "returned"
    /\ cursorVis' = RunExit(cursorVis)
    /\ UNCHANGED <<results, verbosity, loopVarShared, items, cursor, selectable,
                   lastClear, painted, ascii, keyCode, err, selected, ttyOpen,
                   ttyRaw, hist>>
    /\ GetCharDone

\* Space: toggleCursor; an index past the rows is a runtime panic
RunSpace ==
    /\ pc = "dispatch"
    /\ ~abortKey(ascii, err)
    /\ ascii = 32
    /\ keyCode \notin {38, 40}
    /\ IF cursor < 0 \/ cursor >= Len(items)
       THEN Panic
       ELSE /\ items' = toggleCursor(items, cursor)
            /\ Render(items', cursor)
            /\ pc' = "read"
            /\ UNCHANGED <<results, verbosity, loopVarShared, cursor, selectable,
                           selected, aborted>>
    /\ GetCharDone
    /\ UNCHANGED <<ascii, keyCode, err, ttyOpen, ttyRaw, hist>>

\* Enter: collect the selected rows; a selected row without update is a nil
\* dereference
RunEnter ==
    /\ pc = "dispatch"
    /\ ~abortKey(ascii, err)
    /\ ascii = 13
    /\ IF \E n \in 1..Len(items) : items[n].selected /\ items[n].update = Nil
       THEN Panic
       ELSE /\ selected' = selectedUpdates(items)
            /\ pc' = "returned"
            /\ cursorVis' = RunExit(cursorVis)
            /\ UNCHANGED <<results, verbosity, loopVarShared, items, cursor,
                           selectable, lines, lastClear, painted, aborted>>
    /\ GetCharDone
    /\ UNCHANGED <<ascii, keyCode, err, ttyOpen, ttyRaw, hist>>

\* Down arrow: cursorDown; a modulo by zero is a runtime panic
RunDown ==
    /\ pc = "dispatch"
    /\ ~abortKey(ascii, err)
    /\ ascii \notin {32, 13}
    /\ keyCode = 40
    /\ IF selectable = 0
       THEN Panic
       ELSE /\ cursor' = cursorDown(cursor, selectable)
            /\ Render(items, cursor')
            /\ pc' = "read"
            /\ UNCHANGED <<results, verbosity, loopVarShared, items, selectable,
                           selected, aborted>>
    /\ GetCharDone
    /\ UNCHANGED <<ascii, keyCode, err, ttyOpen, ttyRaw, hist>>

\* Up arrow: cursorUp
RunUp ==
    /\ pc = "dispatch"
    /\ ~abortKey(ascii, err)
    /\ ascii \notin {32, 13}
    /\ keyCode = 38
    /\ IF selectable = 0
       THEN Panic
       ELSE /\ cursor' = cursorUp(cursor, selectable)
            /\ Render(items, cursor')
            /\ pc' = "read"
            /\ UNCHANGED <<results, verbosity, loopVarShared, items, selectable,
                           selected, aborted>>
    /\ GetCharDone
    /\ UNCHANGED <<ascii, keyCode, err, ttyOpen, ttyRaw, hist>>

\* the loop repainting after every key it does not know
RunOther_repaints ==
    /\ pc = "dispatch"
    /\ ~abortKey(ascii, err)
    /\ ascii \notin {32, 13}
    /\ keyCode \notin {38, 40}
    /\ Render(items, cursor)
    /\ pc' = "read"
    /\ GetCharDone
    /\ UNCHANGED <<results, verbosity, loopVarShared, items, cursor, selectable,
                   ascii, keyCode, err, selected, aborted, ttyOpen, ttyRaw, hist>>

\* any other key: the loop goes on to the next read
RunOther ==
    /\ pc = "dispatch"
    /\ ~abortKey(ascii, err)
    /\ ascii \notin {32, 13}
    /\ keyCode \notin {38, 40}
    /\ pc' = "read"
    /\ GetCharDone
    /\ UNCHANGED <<results, verbosity, loopVarShared, items, cursor, selectable,
                   lines, lastClear, painted, cursorVis, ascii, keyCode, err,
                   selected, aborted, ttyOpen, ttyRaw, hist>>

Next ==
    \/ RunStart
    \/ GetCharOpenFails
    \/ GetCharReadFails
    \/ GetCharReads
    \/ RunAbort
    \/ RunSpace
    \/ RunEnter
    \/ RunDown
    \/ RunUp
    \/ RunOther

Spec == Init /\ [][Next]_vars

-----------------------------------------------------------------------------
(* The menu operations called one after the other on a built menu *)

\* the record of an operation called now: the two last are kept
pushHist(op) ==
    LET e == [op |-> op, cursor |-> cursor, items |-> items]
    IN  IF Len(hist) < 2 THEN Append(hist, e) ELSE <<hist[2], e>>

\* a runtime panic of an operation called outside of Run
OpPanics ==
    /\ pc' = "panicked"
    /\ UNCHANGED <<results, verbosity, loopVarShared, items, cursor, selectable,
                   lines, lastClear, painted, cursorVis, hist>>

\* Menu.toggleCursor
OpToggleCursor ==
    /\ pc = "start"
    /\ IF cursor < 0 \/ cursor >= Len(items)
       THEN OpPanics
       ELSE /\ items' = toggleCursor(items, cursor)
            /\ Render(items', cursor)
            /\ hist' = pushHist("toggleCursor")
            /\ UNCHANGED <<results, verbosity, loopVarShared, cursor, selectable, pc>>
    /\ UNCHANGED <<ascii, keyCode, err, selected, aborted, ttyOpen, ttyRaw, bytes,
                   ioErrors>>

\* Menu.cursorDown
OpCursorDown ==
    /\ pc = "start"
    /\ IF selectable = 0
       THEN OpPanics
       ELSE /\ cursor' = cursorDown(cursor, selectable)
            /\ Render(items, cursor')
            /\ hist' = pushHist("cursorDown")
            /\ UNCHANGED <<results, verbosity, loopVarShared, items, selectable, pc>>
    /\ UNCHANGED <<ascii, keyCode, err, selected, aborted, ttyOpen, ttyRaw, bytes,
                   ioErrors>>

\* Menu.cursorUp
OpCursorUp ==
    /\ pc = "start"
    /\ IF selectable = 0
       THEN OpPanics
       ELSE /\ cursor' = cursorUp(cursor, selectable)
            /\ Render(items, cursor')
            /\ hist' = pushHist("cursorUp")
            /\ UNCHANGED <<results, verbosity, loopVarShared, items, selectable, pc>>
    /\ UNCHANGED <<ascii, keyCode, err, selected, aborted, ttyOpen, ttyRaw, bytes,
                   ioErrors>>

NextOps ==
    \/ OpToggleCursor
    \/ OpCursorDown
    \/ OpCursorUp

SpecOps == Init /\ [][NextOps]_vars

\* getChar never returns a character together with an arrow code, so the two
\* if chains of the loop of Run never both act on one key
KeyExclusive == ascii # 0 => keyCode = 0

TypeOK ==
    /\ pc \in {"start", "read", "dispatch", "returned", "panicked"}
    /\ cursor \in Int
    /\ selectable \in Nat
    /\ cursorVis \in {"none", "hide", "show"}

-----------------------------------------------------------------------------
(* Properties *)

\* the position in the row sequence of the c-th selectable row (0 if none)
selectablePos(its, c) ==
    IF \E n \in 1..Len(its) : isSelectable(its[n]) /\ renderIndex(its, n) = c
    THEN CHOOSE n \in 1..Len(its) : isSelectable(its[n]) /\ renderIndex(its, n) = c
    ELSE 0

\* the update descriptors of the selected rows, in row order
descriptorsOfSelected(its) ==
    LET sel == SelectSeq(its, LAMBDA i : i.selected)
    IN  [n \in 1..Len(sel) |-> sel[n].update]

\* C1: when Enter (ascii 13) is read, Run returns, not aborted, with exactly the
\* update descriptors of the rows whose selected flag is true, in row order,
\* and does not fail.
C1_EnterReturnsSelected ==
    [][(pc = "dispatch" /\ ascii = 13 /\ ~err)
         => (/\ pc' = "returned"
             /\ aborted' = FALSE
             /\ selected' = descriptorsOfSelected(items)
             /\ \A n \in 1..Len(selected') : selected'[n] # Nil)]_vars

\* C2: Space flips the selected flag of the cursor-th row of the selectable
\* subsequence, and of no other row, whenever there is a selectable row.
C2_ToggleFlipsCursorRow ==
    [][(pc = "dispatch" /\ ascii = 32 /\ ~err /\ selectable > 0)
         => LET p == selectablePos(items, cursor)
            IN  /\ p # 0
                /\ items' = [items EXCEPT ![p].selected = ~items[p].selected]]_vars

\* C3: in every reachable state every non-selectable row (a row without
\* update descriptor) has selected = false.
C3_NonSelectableNeverSelected ==
    \A n \in 1..Len(items) : ~isSelectable(items[n]) => ~items[n].selected

\* C4: when Run reads Escape (27), the interrupt key (3) or a read error, after
\* any toggles and cursor moves, it returns at once with aborted = true and an
\* empty selection list.
C4_AbortReturnsEmpty ==
    [][(pc = "dispatch" /\ (ascii = 27 \/ ascii = 3 \/ err))
         => (/\ pc' = "returned"
             /\ aborted' = TRUE
             /\ selected' = <<>>
             /\ UNCHANGED <<items, cursor>>)]_vars

\* Run has returned on Escape after a toggle and a cursor move
C4_Witness ==
    /\ pc = "returned"
    /\ aborted
    /\ ascii = 27
    /\ cursor > 0
    /\ \E n \in 1..Len(items) : items[n].selected

\* C5: whenever getChar has returned, also when the read failed, the terminal
\* device has been restored and closed.
C5_DeviceReleasedOnReturn ==
    pc = "dispatch" => (~ttyOpen /\ ~ttyRaw)

\* C6: a Down or Up arrow read on a menu with zero selectable rows leaves the
\* cursor unchanged and the loop keeps running.
C6_ArrowOnEmptyIsNoOp ==
    [][(pc = "dispatch" /\ ~err /\ keyCode \in {38, 40} /\ selectable = 0)
         => (pc' = "read" /\ cursor' = cursor)]_vars

\* C7: a Space read on a menu with no selectable row (no row at all, or error
\* rows only) changes no selected flag and the loop keeps running.
C7_ToggleOnEmptyIsNoOp ==
    [][(pc = "dispatch" /\ ~err /\ ascii = 32 /\ selectable = 0)
         => (pc' = "read" /\ items' = items)]_vars

\* C8: whenever the selectable count is positive, 0 <= cursor < selectable;
\* Down maps cursor c to (c+1) mod count and Up maps c to (c-1) mod count.
C8_CursorInRange ==
    /\ [](selectable > 0 => (0 <= cursor /\ cursor < selectable))
    /\ [][(pc = "dispatch" /\ ~err /\ selectable > 0 /\ keyCode = 40)
            => cursor' = (cursor + 1) % selectable]_vars
    /\ [][(pc = "dispatch" /\ ~err /\ selectable > 0 /\ keyCode = 38)
            => cursor' = (cursor - 1) % selectable]_vars

\* Up has wrapped the cursor from the first to the last selectable row
C8_Witness ==
    /\ pc = "read"
    /\ keyCode = 38
    /\ selectable >= 2
    /\ cursor = selectable - 1

\* C9: whenever Run has returned, the last cursor-visibility sequence written
\* is show: it follows every hide of the renders of that Run.
C9_ShowCursorOnReturn ==
    pc = "returned" => cursorVis = "show"

\* Run has returned on a read error after its renders
C9_Witness ==
    /\ pc = "returned"
    /\ err
    /\ lines > 0
    /\ cursorVis = "show"

\* the threshold rule: the outcome is left out at verbosity v
filteredOut(status, v) ==
    (status = "ignored" /\ v < 2) \/ (status = "skipped" /\ v < 1)

\* the rows NewMenu builds from the input map at verbosity v
rowsAt(v) == fromResults(results, v, loopVarShared).items

rowSet(its) == {its[n] : n \in 1..Len(its)}

\* resource id contributes rows at verbosity v
contributes(id, v) == \E n \in 1..Len(rowsAt(v)) : rowsAt(v)[n].id = id

\* C10 as stated: for the menu NewMenu has built (the input map is never
\* changed afterwards), at every verbosity an outcome contributes rows iff the
\* threshold rule does not leave it out, and the rows at v are among the rows
\* at v+1.
C10_ContributesIffNotFiltered ==
    pc = "start" =>
        /\ \A v \in Verbosities : \A id \in DOMAIN results :
             contributes(id, v) <=> ~filteredOut(results[id].Status, v)
        /\ \A v \in Verbosities : rowSet(rowsAt(v)) \subseteq rowSet(rowsAt(v + 1))

\* C10 amended: for the menu NewMenu has built, at every verbosity an outcome
\* contributes rows iff it has an error or an update and the threshold rule
\* does not leave it out, and the rows at v are among the rows at v+1.
C10_ContributesIffNotFilteredAndNonEmpty ==
    pc = "start" =>
        /\ \A v \in Verbosities : \A id \in DOMAIN results :
             contributes(id, v) <=>
                (/\ ~filteredOut(results[id].Status, v)
                 /\ (results[id].Error # "" \/ Len(results[id].PerContainer) > 0))
        /\ \A v \in Verbosities : rowSet(rowsAt(v)) \subseteq rowSet(rowsAt(v + 1))
        /\ items = rowsAt(verbosity)

\* a menu built at verbosity 1 from an ignored and a skipped outcome that both
\* carry an error: only the skipped one has a row
C10_Witness ==
    /\ pc = "start"
    /\ verbosity = 1
    /\ \E i, j \in DOMAIN results :
         /\ results[i].Status = "ignored" /\ results[i].Error # ""
         /\ results[j].Status = "skipped" /\ results[j].Error # ""
    /\ Len(items) = 1

\* C11: an I/O error of the decoder while opening the device, switching it to
\* raw mode or reading from it is returned to the caller as an error: every
\* call of getChar in which a device operation fails returns with err set.
C11_IOErrorsReturned ==
    [][(pc = "read" /\ ioErrors' # {}) => (pc' = "dispatch" /\ err')]_vars

\* the rows one outcome is to give: its error row, if any, then one row per
\* update, the k-th carrying the k-th descriptor
rowsOfOutcome(id, result) ==
    (IF result.Error # ""
     THEN <<MenuItem(id, result.Status, result.Error, Nil)>>
     ELSE <<>>)
    \o [k \in 1..Len(result.PerContainer) |->
          MenuItem(id, result.Status, "", result.PerContainer[k])]

RECURSIVE rowsOfOutcomes(_, _, _, _)
rowsOfOutcomes(ids, n, r, v) ==
    IF n > Len(ids) THEN <<>>
    ELSE (IF filteredOut(r[ids[n]].Status, v)
          THEN <<>>
          ELSE rowsOfOutcome(ids[n], r[ids[n]]))
         \o rowsOfOutcomes(ids, n + 1, r, v)

\* C12: the rows NewMenu builds are, for the outcomes not filtered out, in
\* lexicographic order of identifier, the error row (if the error is not
\* empty) followed by one selectable row per update, the k-th of them carrying
\* the k-th update descriptor of the outcome.
C12_RowsCarryOwnDescriptors ==
    pc = "start" => items = rowsOfOutcomes(ServiceIDs(results), 1, results, verbosity)

\* C13: after the AddItem calls of NewMenu the selectable counter is the number
\* of rows that carry an update descriptor, and no key event of Run changes
\* the counter.
C13_SelectableCountsUpdateRows ==
    /\ [](selectable = Cardinality({n \in 1..Len(items) : items[n].update # Nil}))
    /\ [][selectable' = selectable]_vars

\* a menu of error rows and update rows, after Space has been handled
C13_Witness ==
    /\ pc = "read"
    /\ ascii = 32
    /\ selectable >= 1
    /\ Len(items) > selectable

\* the two last operations called were first and then second
lastTwo(first, second) ==
    /\ Len(hist) = 2
    /\ hist[1].op = first
    /\ hist[2].op = second

\* C14: with a selectable count > 0 and from any valid cursor position,
\* CursorDown followed by CursorUp, and CursorUp followed by CursorDown, bring
\* the cursor back to where it was.
C14_DownUpRoundTrip ==
    (lastTwo("cursorDown", "cursorUp") \/ lastTwo("cursorUp", "cursorDown"))
        => cursor = hist[1].cursor

\* CursorUp then CursorDown from the first row: the walk has wrapped both ways
C14_Witness ==
    /\ lastTwo("cursorUp", "cursorDown")
    /\ selectable >= 2
    /\ hist[1].cursor = 0
    /\ hist[2].cursor = selectable - 1

\* C15: two ToggleCursor calls in a row, with no cursor move between them,
\* leave every row's selected flag as it was before the first.
C15_ToggleTwiceRestores ==
    lastTwo("toggleCursor", "toggleCursor") =>
        /\ Len(items) = Len(hist[1].items)
        /\ \A n \in 1..Len(items) : items[n].selected = hist[1].items[n].selected

\* two ToggleCursor calls in a row on a row that was not selected
C15_Witness ==
    /\ lastTwo("toggleCursor", "toggleCursor")
    /\ hist[2].items # hist[1].items
    /\ \A n \in 1..Len(items) : ~items[n].selected

\* a step of Run in which Render runs again: Space or an arrow was handled
repaints ==
    /\ pc = "dispatch"
    /\ pc' = "read"
    /\ ascii = 32 \/ keyCode \in {38, 40}

\* the rows whose text holds a line break of its own
twoLineRows(its) ==
    {n \in 1..Len(its) : its[n].update = Nil /\ its[n].error = "e\ne"}

\* C16 as stated: each Render leaves the line count at what it wrote after a
\* reset to zero, and the clear of the next Render moves the cursor up by the
\* line breaks of the previous Render, the header line plus one line per row.
C16_ClearMovesUpHeaderPlusRows ==
    /\ []((pc \in {"read", "dispatch"}) => lines = 1 + Len(items))
    /\ [][repaints => (lastClear' = 1 + Len(items) /\ lines' = 1 + Len(items'))]_vars

\* C16 amended: the clear of the next Render moves the cursor up by the line
\* breaks of the previous Render, which are the header line, one line per row
\* and the line breaks inside the texts of the rows; each Render leaves the
\* line count at what it wrote after a reset to zero.
C16_ClearMovesUpLineBreaksWritten ==
    /\ []((pc \in {"read", "dispatch"})
            => lines = 1 + Len(items) + Cardinality(twoLineRows(items)))
    /\ [][repaints
            => (/\ lastClear' = 1 + Len(items) + Cardinality(twoLineRows(items))
                /\ lines' = 1 + Len(items') + Cardinality(twoLineRows(items')))]_vars

\* a second Render of a menu with a row whose error has two lines
C16_Witness ==
    /\ pc = "read"
    /\ keyCode = 40
    /\ twoLineRows(items) # {}
    /\ lastClear = 2 + Len(items)
    /\ lines = lastClear

\* the reads that are Space, Enter, Escape, interrupt, Up arrow or Down arrow
knownKeys ==
    {<<32>>, <<13>>, <<27>>, <<3>>, <<27, 91, 65>>, <<27, 91, 66>>}

\* C17: a key event that is none of Space, Enter, Escape, interrupt, Up or Down
\* (a Left or Right arrow, another single byte, a read of another byte count)
\* leaves the cursor, every selected flag and the line count unchanged, paints
\* nothing and does not end the loop.
C17_OtherKeyIgnored ==
    [][(pc = "dispatch" /\ ~err /\ bytes \notin knownKeys)
         => (/\ pc' = "read"
             /\ UNCHANGED <<cursor, items, lines, lastClear, painted, cursorVis>>)]_vars

\* a Right arrow has been passed over after a toggle and a cursor move
C17_Witness ==
    /\ pc = "read"
    /\ keyCode = 39
    /\ cursor > 0
    /\ \E n \in 1..Len(items) : items[n].selected

\* the symbolic code of the third byte of ESC [ d
arrowCode(d) ==
    CASE d = 65 -> 38
      [] d = 66 -> 40
      [] d = 67 -> 39
      [] d = 68 -> 37
      [] OTHER -> 0

\* C18: a read of three bytes ESC [ d gives the code of d (A 38, B 40, C 39,
\* D 37) with ascii 0, a read of one byte gives that byte as ascii with
\* keyCode 0, any other read gives ascii 0 and keyCode 0; so Run never moves the
\* cursor on a single byte such as 38 or 40.
C18_DecoderMapping ==
    /\ []((pc = "dispatch" /\ ~err) =>
            IF Len(bytes) = 3 /\ bytes[1] = 27 /\ bytes[2] = 91
            THEN ascii = 0 /\ keyCode = arrowCode(bytes[3])
            ELSE IF Len(bytes) = 1
                 THEN ascii = bytes[1] /\ keyCode = 0
                 ELSE ascii = 0 /\ keyCode = 0)
    /\ [][(pc = "dispatch" /\ Len(bytes) = 1) => cursor' = cursor]_vars

\* the single byte 40 has been read and handled on a menu with two selectable
\* rows: the cursor is where it was
C18_Witness ==
    /\ pc = "read"
    /\ ascii = 40
    /\ keyCode = 0
    /\ selectable >= 2
    /\ cursor = 0

\* the rows the last Render has drawn with the cursor marker
markedRows == {n \in 1..Len(painted) : painted[n].curs = ">"}

\* C19: every Render of a menu with a selectable row draws exactly one row
\* with the cursor marker, the cursor-th selectable row, and never a row
\* without update descriptor.
C19_OneMarkerOnCursorRow ==
    (pc \in {"read", "dispatch"} /\ selectable > 0)
        => markedRows = {selectablePos(items, cursor)}

\* the rows without their selected flags
rowsData(its) == [n \in 1..Len(its) |-> [its[n] EXCEPT !.selected = FALSE]]

\* the rows whose selected flag a step changes
flagsChanged == {n \in 1..Len(items) : items'[n].selected # items[n].selected}

\* C20: during Run, CursorDown and CursorUp change the cursor and no selected
\* flag, ToggleCursor changes one selected flag and not the cursor, no other
\* step changes either, and no step changes the number, order, identifiers,
\* errors or update descriptors of the rows, nor the input map.
C20_FrameOfRun ==
    [][/\ results' = results
       /\ rowsData(items') = rowsData(items)
       /\ (pc = "dispatch" /\ ~err /\ keyCode \in {38, 40}) => items' = items
       /\ (pc = "dispatch" /\ ~err /\ ascii = 32) =>
             /\ cursor' = cursor
             /\ Cardinality(flagsChanged) = IF pc' = "read" THEN 1 ELSE 0
       /\ ~(pc = "dispatch" /\ ~err /\ (ascii = 32 \/ keyCode \in {38, 40})) =>
             (cursor' = cursor /\ items' = items)]_vars

\* Space has been handled after a cursor move: one row is selected
C20_Witness ==
    /\ pc = "read"
    /\ ascii = 32
    /\ cursor > 0
    /\ Cardinality({n \in 1..Len(items) : items[n].selected}) = 1

====
